---- MODULE Spec2Model ----
(***************************************************************************)
(* Model of FastAPI_CSV.py: the glyph cache FONT_CACHE, the handlers       *)
(* index, download_font_csv and clear_cache, and get_cached_fonts /        *)
(* text_to_dot_matrix which they call.                                     *)
(*                                                                         *)
(* FastAPI runs plain `def` handlers on a thread pool, so one handler's    *)
(* statements interleave with those of another.  Each worker thread has a  *)
(* program counter named after the source line it is about to execute.     *)
(* Python dicts are objects: FONT_CACHE maps a size key to a reference     *)
(* into `heap`, and the local variable `cache` holds such a reference.     *)
(***************************************************************************)
EXTENDS Integers, Sequences, FiniteSets, TLC

\* ------------------------------------------------------------------ bounds
\* Longest text a request carries.
MaxLen == 2
\* Requests served in one behaviour when one worker thread serves them in turn.
MaxRequests == 3
\* Worker threads, and requests served, when handlers run concurrently.
NumWorkers == 2
MaxConcRequests == 2
\* Longest text of a request when handlers run concurrently.
MaxConcLen == 1

\* ------------------------------------------------------- program constants
DEFAULT_SIZE == 16
ALLOWED_SIZES == {16, 24, 32}

\* ------------------------------------------------------------------ inputs
Chars == {"a", "b"}
\* Sizes a client asks for: the catalog (DEFAULT_SIZE when size is omitted)
\* and one size outside it, not a multiple of 8.
RequestSizes == ALLOWED_SIZES \cup {DEFAULT_SIZE} \cup {20}
Texts == UNION {[1..n -> Chars] : n \in 0..MaxLen}
ConcSizes == {DEFAULT_SIZE, 24, 20}
ConcTexts == UNION {[1..n -> Chars] : n \in 0..MaxConcLen}

None == 0
Threads == 1..NumWorkers

VARIABLES
    FONT_CACHE,     \* the module global: size key -> reference to a bucket dict
    heap,           \* reference -> bucket dict (character -> list of bytes)
    pc,             \* per thread: "idle", the line about to run, or "done"
    text,           \* per thread: parameter text of download_font_csv
    size,           \* per thread: local size (after line 139)
    cache,          \* per thread: local cache (a reference, or None)
    chars_to_gen,   \* per thread: the set iterated at line 104
    unique_chars,   \* per thread: the list iterated at line 156
    idx,            \* per thread: position of the loop of line 156
    output,         \* per thread: rows written to the csv writer so far
    resp,           \* per thread: the response of the finished handler
    reqsize,        \* history: the size the client asked for
    before,         \* history: cache content when the request started
    rendered,       \* history: calls of text_to_dot_matrix per character
    failed,         \* history: characters whose rendering raised
    handler,        \* history: the handler the thread runs
    clears,         \* history: /clear requests served so far
    wiped,          \* history: cache content the latest /clear removed
    cleared,        \* history: no /font.csv request came since the latest /clear
    afterClear,     \* history: this request is the first after a /clear
    lastEnsure,     \* history: the latest completed get_cached_fonts calls
    remaining       \* requests still to be served in this behaviour

locals == <<text, size, cache, chars_to_gen, unique_chars, idx, output>>
hist == <<reqsize, before, rendered, failed, handler, clears, wiped, cleared,
          afterClear, lastEnsure>>
vars == <<FONT_CACHE, heap, pc, resp, locals, hist, remaining>>

\* ---------------------------------------------------------- pure functions
Range(f) == {f[x] : x \in DOMAIN f}

\* set(text)
SetOf(s) == {s[i] : i \in DOMAIN s}

\* str(size)
str(n) == ToString(n)

\* The canvas after draw.text: the glyph is whatever Pillow draws, so a fixed
\* pattern per character stands for it (a diagonal, and a top row plus the
\* other diagonal); pixels are 0 or 1.
getpixel(char, img_size, px, py) ==
    IF char = "a"
    THEN (IF px = py THEN 1 ELSE 0)
    ELSE (IF py = 0 \/ px + py = img_size - 1 THEN 1 ELSE 0)

RECURSIVE Pow2(_)
Pow2(n) == IF n = 0 THEN 1 ELSE 2 * Pow2(n - 1)

\* Lines 73-80: one byte, bit 7 first; columns beyond the canvas stay 0.
RECURSIVE PackByte(_, _, _, _, _)
PackByte(char, img_size, py, px_start, bit) ==
    IF bit >= 8 THEN 0
    ELSE LET px == px_start + bit
         IN (IF px < img_size /\ getpixel(char, img_size, px, py) # 0
             THEN Pow2(7 - bit) ELSE 0)
            + PackByte(char, img_size, py, px_start, bit + 1)

\* Line 72: for px_start in range(0, img_size, 8)
RECURSIVE PackRow(_, _, _, _)
PackRow(char, img_size, py, px_start) ==
    IF px_start >= img_size THEN <<>>
    ELSE <<PackByte(char, img_size, py, px_start, 0)>>
         \o PackRow(char, img_size, py, px_start + 8)

\* Line 71: for py in range(img_size)
RECURSIVE PackRows(_, _, _)
PackRows(char, img_size, py) ==
    IF py >= img_size THEN <<>>
    ELSE PackRow(char, img_size, py, 0) \o PackRows(char, img_size, py + 1)

\* text_to_dot_matrix when it returns: bytes_list.
text_to_dot_matrix(char, font_size) == PackRows(char, font_size, 0)

\* The glyphs of the catalog sizes, computed once.
GlyphTable == [c \in Chars, s \in ALLOWED_SIZES |-> text_to_dot_matrix(c, s)]

Dots(char, font_size) ==
    IF font_size \in ALLOWED_SIZES THEN GlyphTable[char, font_size]
    ELSE text_to_dot_matrix(char, font_size)

BlackGlyphShort(sz) == [i \in 1..(sz \div 8) |-> 0]
\* Lines 111-112: [0] * ((size * size) // 8)
BlackGlyph(sz) == [i \in 1..((sz * sz) \div 8) |-> 0]

CoerceNone(sz) == sz
\* Lines 137-139
Coerce(sz) == IF sz \notin ALLOWED_SIZES THEN 16 ELSE sz

\* text.index(c)
Index(s, c) == CHOOSE i \in DOMAIN s : s[i] = c /\ \A j \in 1..(i - 1) : s[j] # c

\* sorted(list(S), key): the keys used are distinct, so the order in which
\* list(set) enumerates S does not show in the result.
RECURSIVE SortedBy(_, _)
SortedBy(S, key) ==
    IF S = {} THEN <<>>
    ELSE LET m == CHOOSE c \in S : \A d \in S : key[c] <= key[d]
         IN <<m>> \o SortedBy(S \ {m}, key)

UniqueCharsSorted(s) == SortedBy(SetOf(s), [c \in SetOf(s) |-> IF c = "a" THEN 0 ELSE 1])
\* Line 155: sorted(list(set(text)), key=text.index)
UniqueChars(s) == SortedBy(SetOf(s), [c \in SetOf(s) |-> Index(s, c)])

\* Line 151: ['char'] + [f'byte{i}' for i in range(bytes_per_char)]
Header(sz) == <<"char">> \o [i \in 1..((sz * sz) \div 8) |-> "byte" \o ToString(i - 1)]

\* Lines 164-171; the body is kept as the rows handed to csv.writer.
CsvResponse(sz, rows) ==
    [status |-> 200, filename |-> "font_" \o ToString(sz) \o ".csv", rows |-> rows]

\* Line 135, and an exception that leaves a handler (FastAPI answers 500).
ErrorResponse(code) == [status |-> code, filename |-> "", rows |-> <<>>]

\* Lines 120-124 and 176
JsonResponse == [status |-> 200, filename |-> "", rows |-> <<>>]
NoResponse == [status |-> 0, filename |-> "", rows |-> <<>>]

\* ------------------------------------------------------------- the heap
\* The cache as a client sees it: size key -> character -> bytes.
Content == [k \in DOMAIN FONT_CACHE |-> heap[FONT_CACHE[k]]]
Empty == [k \in {} |-> 0]

\* A fresh reference for the dict literal {} of line 90.
NewRef(h) == CHOOSE d \in 1..(Cardinality(DOMAIN h) + 1) :
                 d \notin DOMAIN h /\ \A e \in 1..(d - 1) : e \in DOMAIN h

\* Reference counting: a dict lives while FONT_CACHE or a local names it.
Collect(h, fc, refs) == [d \in (Range(fc) \cup (Range(refs) \ {None})) |-> h[d]]

NoEnsure == [n |-> 0, text |-> <<>>, size |-> 0, content |-> Empty]
NoRenders == [c \in Chars |-> 0]

Put(f, k, v) == [x \in (DOMAIN f) \cup {k} |-> IF x = k THEN v ELSE f[x]]

RejectedNever(txt) == FALSE
\* Line 134: not text
Rejected(txt) == txt = <<>>

CharsToGenAll(txt, bucket) == SetOf(txt)
\* Line 96: set(text) - set(cache.keys())
CharsToGen(txt, bucket) == SetOf(txt) \ DOMAIN bucket

ClearedNothing(fc) == fc
\* Line 175: FONT_CACHE.clear()
Cleared(fc) == Empty

\* ------------------------------------------------------------------- Init
InitCommon ==
    /\ FONT_CACHE = Empty
    /\ heap = Empty
    /\ pc = [t \in Threads |-> "idle"]
    /\ text = [t \in Threads |-> <<>>]
    /\ size = [t \in Threads |-> 0]
    /\ cache = [t \in Threads |-> None]
    /\ chars_to_gen = [t \in Threads |-> {}]
    /\ unique_chars = [t \in Threads |-> <<>>]
    /\ idx = [t \in Threads |-> 0]
    /\ output = [t \in Threads |-> <<>>]
    /\ resp = [t \in Threads |-> NoResponse]
    /\ reqsize = [t \in Threads |-> 0]
    /\ before = [t \in Threads |-> Empty]
    /\ rendered = [t \in Threads |-> NoRenders]
    /\ failed = [t \in Threads |-> {}]
    /\ handler = [t \in Threads |-> ""]
    /\ clears = 0
    /\ wiped = Empty
    /\ cleared = FALSE
    /\ afterClear = [t \in Threads |-> FALSE]
    /\ lastEnsure = NoEnsure

Init == InitCommon /\ remaining = MaxRequests

InitConc == InitCommon /\ remaining = MaxConcRequests

\* ---------------------------------------------------------------- actions
\* A request goes to the first free worker thread.
Accept(t) ==
    /\ pc[t] = "idle"
    /\ \A u \in Threads : u < t => pc[u] # "idle"
    /\ remaining > 0
    /\ remaining' = remaining - 1

Step(t, at) ==
    /\ pc[t] = at
    /\ UNCHANGED remaining

\* GET / (lines 118-124)
index(t) ==
    /\ Accept(t)
    /\ pc' = [pc EXCEPT ![t] = "done"]
    /\ resp' = [resp EXCEPT ![t] = JsonResponse]
    /\ handler' = [handler EXCEPT ![t] = "index"]
    /\ UNCHANGED <<FONT_CACHE, heap, locals>>
    /\ UNCHANGED <<reqsize, before, rendered, failed, clears, wiped, cleared,
                   afterClear, lastEnsure>>

\* GET /clear (lines 173-176)
clear_cache(t) ==
    /\ Accept(t)
    /\ FONT_CACHE' = Cleared(FONT_CACHE)
    /\ heap' = Collect(heap, FONT_CACHE', cache)
    /\ pc' = [pc EXCEPT ![t] = "done"]
    /\ resp' = [resp EXCEPT ![t] = JsonResponse]
    /\ handler' = [handler EXCEPT ![t] = "clear_cache"]
    /\ clears' = clears + 1
    /\ wiped' = Content
    /\ cleared' = TRUE
    /\ lastEnsure' = NoEnsure
    /\ UNCHANGED <<locals, reqsize, before, rendered, failed, afterClear>>

\* GET /font.csv, lines 127-139: the parameters, the empty-text check and
\* the coercion of size; they touch nothing shared.
download_font_csv(t, txt, sz) ==
    /\ Accept(t)
    /\ handler' = [handler EXCEPT ![t] = "download_font_csv"]
    /\ text' = [text EXCEPT ![t] = txt]
    /\ reqsize' = [reqsize EXCEPT ![t] = sz]
    /\ before' = [before EXCEPT ![t] = Content]
    /\ afterClear' = [afterClear EXCEPT ![t] = cleared]
    /\ cleared' = FALSE
    /\ IF Rejected(txt)
       THEN /\ size' = [size EXCEPT ![t] = sz]
            /\ resp' = [resp EXCEPT ![t] = ErrorResponse(400)]
            /\ pc' = [pc EXCEPT ![t] = "done"]
       ELSE /\ size' = [size EXCEPT ![t] = Coerce(sz)]
            /\ pc' = [pc EXCEPT ![t] = "L89"]
            /\ UNCHANGED resp
    /\ UNCHANGED <<FONT_CACHE, heap, cache, chars_to_gen, unique_chars, idx, output>>
    /\ UNCHANGED <<rendered, failed, clears, wiped, lastEnsure>>

\* get_cached_fonts, line 89: if size_key not in FONT_CACHE
get_cached_fonts_L89(t) ==
    /\ Step(t, "L89")
    /\ pc' = [pc EXCEPT ![t] = IF str(size[t]) \notin DOMAIN FONT_CACHE
                                THEN "L90" ELSE "L92"]
    /\ UNCHANGED <<FONT_CACHE, heap, resp, locals, hist>>

\* line 90: FONT_CACHE[size_key] = {}
get_cached_fonts_L90(t) ==
    /\ Step(t, "L90")
    /\ LET d == NewRef(heap)
       IN /\ FONT_CACHE' = Put(FONT_CACHE, str(size[t]), d)
          /\ heap' = Collect(Put(heap, d, Empty), FONT_CACHE', cache)
    /\ pc' = [pc EXCEPT ![t] = "L92"]
    /\ UNCHANGED <<resp, locals, hist>>

\* line 92: cache = FONT_CACHE[size_key]; a missing key raises KeyError,
\* which leaves the handler.
get_cached_fonts_L92(t) ==
    /\ Step(t, "L92")
    /\ IF str(size[t]) \in DOMAIN FONT_CACHE
       THEN /\ cache' = [cache EXCEPT ![t] = FONT_CACHE[str(size[t])]]
            /\ pc' = [pc EXCEPT ![t] = "L96"]
            /\ UNCHANGED resp
       ELSE /\ cache' = [cache EXCEPT ![t] = None]
            /\ pc' = [pc EXCEPT ![t] = "done"]
            /\ resp' = [resp EXCEPT ![t] = ErrorResponse(500)]
    /\ heap' = Collect(heap, FONT_CACHE, cache')
    /\ UNCHANGED <<FONT_CACHE, text, size, chars_to_gen, unique_chars, idx, output, hist>>

\* line 96: chars_to_gen = set(text) - set(cache.keys())
get_cached_fonts_L96(t) ==
    /\ Step(t, "L96")
    /\ chars_to_gen' = [chars_to_gen EXCEPT ![t] = CharsToGen(text[t], heap[cache[t]])]
    /\ pc' = [pc EXCEPT ![t] = "L104"]
    /\ UNCHANGED <<FONT_CACHE, heap, resp, text, size, cache, unique_chars, idx, output, hist>>

RenderFailedRaise(t, char) ==
    /\ pc' = [pc EXCEPT ![t] = "done"]
    /\ resp' = [resp EXCEPT ![t] = ErrorResponse(500)]
    /\ cache' = [cache EXCEPT ![t] = None]
    /\ heap' = Collect(heap, FONT_CACHE, cache')
\* lines 108-112: text_to_dot_matrix raised; the except clause stores the
\* black glyph and the loop goes on.
RenderFailed(t, char) ==
    /\ heap' = [heap EXCEPT ![cache[t]] = Put(@, char, BlackGlyph(size[t]))]
    /\ UNCHANGED <<pc, resp, cache>>

\* lines 104-112: one turn of `for char in chars_to_gen` (a set: any order),
\* and line 114 when the loop is over.  text_to_dot_matrix either returns the
\* packed glyph or raises.
get_cached_fonts_L104(t) ==
    /\ Step(t, "L104")
    /\ IF chars_to_gen[t] = {}
       THEN /\ pc' = [pc EXCEPT ![t] = "L143"]
            /\ lastEnsure' =
                 IF lastEnsure.n >= 1 /\ lastEnsure.text = text[t]
                                      /\ lastEnsure.size = size[t]
                 THEN [lastEnsure EXCEPT !.n = 2]
                 ELSE [n |-> 1, text |-> text[t], size |-> size[t], content |-> Content]
            /\ UNCHANGED <<heap, resp, cache, chars_to_gen, rendered, failed>>
       ELSE \E char \in chars_to_gen[t], raises \in BOOLEAN :
            /\ chars_to_gen' = [chars_to_gen EXCEPT ![t] = @ \ {char}]
            /\ rendered' = [rendered EXCEPT ![t][char] = @ + 1]
            /\ IF raises
               THEN /\ failed' = [failed EXCEPT ![t] = @ \cup {char}]
                    /\ RenderFailed(t, char)
               ELSE /\ heap' = [heap EXCEPT ![cache[t]] =
                                   Put(@, char, Dots(char, size[t]))]
                    /\ UNCHANGED <<pc, resp, cache, failed>>
            /\ UNCHANGED lastEnsure
    /\ UNCHANGED <<FONT_CACHE, text, size, unique_chars, idx, output>>
    /\ UNCHANGED <<reqsize, before, handler, clears, wiped, cleared, afterClear>>

\* download_font_csv, lines 143-155: cache = FONT_CACHE[str(size)] (KeyError
\* when the key is gone), the header row and unique_chars.
download_font_csv_L143(t) ==
    /\ Step(t, "L143")
    /\ IF str(size[t]) \in DOMAIN FONT_CACHE
       THEN /\ cache' = [cache EXCEPT ![t] = FONT_CACHE[str(size[t])]]
            /\ output' = [output EXCEPT ![t] = <<Header(size[t])>>]
            /\ unique_chars' = [unique_chars EXCEPT ![t] = UniqueChars(text[t])]
            /\ idx' = [idx EXCEPT ![t] = 1]
            /\ pc' = [pc EXCEPT ![t] = "L156"]
            /\ UNCHANGED resp
       ELSE /\ cache' = [cache EXCEPT ![t] = None]
            /\ pc' = [pc EXCEPT ![t] = "done"]
            /\ resp' = [resp EXCEPT ![t] = ErrorResponse(500)]
            /\ UNCHANGED <<output, unique_chars, idx>>
    /\ heap' = Collect(heap, FONT_CACHE, cache')
    /\ UNCHANGED <<FONT_CACHE, text, size, chars_to_gen, hist>>

\* lines 156-171: one turn of `for char in unique_chars`, and the response
\* when the loop is over.
download_font_csv_L156(t) ==
    /\ Step(t, "L156")
    /\ IF idx[t] > Len(unique_chars[t])
       THEN /\ resp' = [resp EXCEPT ![t] = CsvResponse(size[t], output[t])]
            /\ pc' = [pc EXCEPT ![t] = "done"]
            /\ UNCHANGED <<idx, output>>
       ELSE LET char == unique_chars[t][idx[t]]
                bucket == heap[cache[t]]
            IN /\ output' = [output EXCEPT ![t] =
                                IF char \in DOMAIN bucket
                                THEN Append(@, <<char>> \o bucket[char])
                                ELSE @]
               /\ idx' = [idx EXCEPT ![t] = @ + 1]
               /\ UNCHANGED <<resp, pc>>
    /\ UNCHANGED <<FONT_CACHE, heap, text, size, cache, chars_to_gen, unique_chars, hist>>

\* The response is sent; the handler's frame and its locals are gone.
Finish(t) ==
    /\ Step(t, "done")
    /\ pc' = [pc EXCEPT ![t] = "idle"]
    /\ resp' = [resp EXCEPT ![t] = NoResponse]
    /\ text' = [text EXCEPT ![t] = <<>>]
    /\ size' = [size EXCEPT ![t] = 0]
    /\ cache' = [cache EXCEPT ![t] = None]
    /\ chars_to_gen' = [chars_to_gen EXCEPT ![t] = {}]
    /\ unique_chars' = [unique_chars EXCEPT ![t] = <<>>]
    /\ idx' = [idx EXCEPT ![t] = 0]
    /\ output' = [output EXCEPT ![t] = <<>>]
    /\ reqsize' = [reqsize EXCEPT ![t] = 0]
    /\ before' = [before EXCEPT ![t] = Empty]
    /\ rendered' = [rendered EXCEPT ![t] = NoRenders]
    /\ failed' = [failed EXCEPT ![t] = {}]
    /\ handler' = [handler EXCEPT ![t] = ""]
    /\ afterClear' = [afterClear EXCEPT ![t] = FALSE]
    /\ heap' = Collect(heap, FONT_CACHE, cache')
    /\ UNCHANGED <<FONT_CACHE, clears, wiped, cleared, lastEnsure>>

Serve(t, texts, sizes) ==
    \/ index(t)
    \/ clear_cache(t)
    \/ \E txt \in texts, sz \in sizes : download_font_csv(t, txt, sz)
    \/ get_cached_fonts_L89(t)
    \/ get_cached_fonts_L90(t)
    \/ get_cached_fonts_L92(t)
    \/ get_cached_fonts_L96(t)
    \/ get_cached_fonts_L104(t)
    \/ download_font_csv_L143(t)
    \/ download_font_csv_L156(t)
    \/ Finish(t)

\* One worker thread: requests are served one after the other.
Next == Serve(1, Texts, RequestSizes)

\* A thread pool: handlers interleave statement by statement.
NextConc == \E t \in Threads : Serve(t, ConcTexts, ConcSizes)

Spec == Init /\ [][Next]_vars
SpecConc == InitConc /\ [][NextConc]_vars

\* ----------------------------------------------------------------- claims
\* A /font.csv handler that has produced its response.
CsvDone(t) == pc[t] = "done" /\ handler[t] = "download_font_csv"

\* The data rows of a response (the rows after the header), and their
\* first fields.
DataRows(t) == Tail(resp[t].rows)
RowChars(t) == [i \in DOMAIN DataRows(t) |-> Head(DataRows(t)[i])]

AllZero(g) == \A i \in DOMAIN g : g[i] = 0
CeilDiv(a, b) == (a + b - 1) \div b
PackedLen(sz) == CeilDiv(sz, 8) * sz

\* c occurs in txt before any occurrence of d.
FirstBefore(txt, c, d) ==
    \E p \in DOMAIN txt : txt[p] = c /\ \A q \in DOMAIN txt : txt[q] = d => p < q

\* C1: a /font.csv request with non-empty text, served alone, answers with
\* one data row per distinct character of text, each once, in the order of
\* first occurrence in text, each row carrying the bucket's bytes.
C1_RowsInFirstOccurrenceOrder ==
    \A t \in Threads :
        CsvDone(t) /\ text[t] # <<>> =>
            /\ resp[t].status = 200
            /\ SetOf(RowChars(t)) = SetOf(text[t])
            /\ \A i, j \in DOMAIN RowChars(t) :
                   i < j => /\ RowChars(t)[i] # RowChars(t)[j]
                            /\ FirstBefore(text[t], RowChars(t)[i], RowChars(t)[j])
            /\ \A i \in DOMAIN DataRows(t) :
                   Tail(DataRows(t)[i]) = Content[str(size[t])][RowChars(t)[i]]

\* A repeated character gives one row; "ba" gives b before a.
C1_Witness ==
    \E t \in Threads :
        CsvDone(t) /\ text[t] = <<"b", "a">> /\ RowChars(t) = <<"b", "a">>

C1_WitnessRepeat ==
    \E t \in Threads : CsvDone(t) /\ text[t] = <<"a", "a">> /\ RowChars(t) = <<"a">>

\* What a size = 16 request with this text leaves in the cache, from the
\* content `was`, when rendering raises for the characters in `bad`.
ContentAfter16(was, txt, bad) ==
    LET old == IF "16" \in DOMAIN was THEN was["16"] ELSE Empty
        new == [c \in (DOMAIN old) \cup SetOf(txt) |->
                   IF c \in DOMAIN old THEN old[c]
                   ELSE IF c \in bad THEN [i \in 1..32 |-> 0]
                   ELSE text_to_dot_matrix(c, 16)]
    IN [k \in (DOMAIN was) \cup {"16"} |-> IF k = "16" THEN new ELSE was[k]]

\* The response of a size = 16 request whose bucket is `bucket`.
ResponseOf16(txt, bucket) ==
    [status |-> 200, filename |-> "font_16.csv",
     rows |-> <<Header(16)>> \o
              [i \in 1..Len(UniqueChars(txt)) |->
                   <<UniqueChars(txt)[i]>> \o bucket[UniqueChars(txt)[i]]]]

\* C2: a /font.csv request (non-empty text) with a size outside the catalog
\* gives the response and leaves the cache that the same request with
\* size = 16 gives from the same cache and the same rendering outcomes:
\* filename font_16.csv, only bucket "16" populated, no bucket for the size
\* asked for.
C2_UnknownSizeActsAs16 ==
    \A t \in Threads :
        CsvDone(t) /\ text[t] # <<>>
                   /\ (reqsize[t] \notin ALLOWED_SIZES \/ reqsize[t] = 16) =>
            /\ Content = ContentAfter16(before[t], text[t], failed[t])
            /\ resp[t] = ResponseOf16(text[t], Content["16"])
            /\ reqsize[t] # 16 => str(reqsize[t]) \notin DOMAIN Content

C2_Witness ==
    \E t \in Threads :
        /\ CsvDone(t) /\ reqsize[t] = 20 /\ text[t] # <<>>
        /\ before[t] # Empty /\ "16" \notin DOMAIN before[t]
        /\ resp[t].filename = "font_16.csv"

\* C3: a /font.csv request with empty text is answered 400 and the cache
\* (buckets and entries) is as it was before the request; nothing is
\* rendered.
C3_EmptyTextRejected ==
    \A t \in Threads :
        CsvDone(t) /\ text[t] = <<>> =>
            /\ resp[t].status = 400
            /\ Content = before[t]
            /\ rendered[t] = NoRenders

C3_Witness ==
    \E t \in Threads :
        /\ CsvDone(t) /\ text[t] = <<>> /\ resp[t].status = 400
        /\ Content # Empty /\ str(reqsize[t]) \notin DOMAIN Content

\* The bucket a finished /font.csv request used, now and when it started.
BucketOf(t) == Content[str(size[t])]
BucketBefore(t) ==
    IF str(size[t]) \in DOMAIN before[t] THEN before[t][str(size[t])] ELSE Empty

\* C4: when rendering raises for a character, the request still answers 200
\* with a row for every distinct character; the failed character's entry is
\* all zero, and every other character that was not cached gets its
\* rendered glyph.
C4_RenderFailureContained ==
    \A t \in Threads :
        CsvDone(t) /\ text[t] # <<>> /\ failed[t] # {} =>
            /\ resp[t].status = 200
            /\ SetOf(RowChars(t)) = SetOf(text[t])
            /\ \A c \in failed[t] :
                   c \in DOMAIN BucketOf(t) /\ AllZero(BucketOf(t)[c])
            /\ \A c \in SetOf(text[t]) \ failed[t] :
                   /\ c \in DOMAIN BucketOf(t)
                   /\ c \notin DOMAIN BucketBefore(t) =>
                          BucketOf(t)[c] = text_to_dot_matrix(c, size[t])

\* A two-character text: one character failed, the other was rendered.
C4_Witness ==
    \E t \in Threads :
        /\ CsvDone(t) /\ failed[t] = {"a"} /\ rendered[t]["b"] = 1
        /\ resp[t].status = 200 /\ Len(DataRows(t)) = 2
        /\ ~AllZero(BucketOf(t)["b"])

\* C5: every glyph stored under the key of a size has ceil(size/8) * size
\* bytes, rendered or black, and a response's header has that many byte
\* columns.
C5_PackedLength ==
    /\ \A k \in DOMAIN Content :
           \E sz \in RequestSizes :
               /\ str(sz) = k
               /\ \A c \in DOMAIN Content[k] : Len(Content[k][c]) = PackedLen(sz)
    /\ \A t \in Threads :
           CsvDone(t) /\ resp[t].status = 200 =>
               Len(Head(resp[t].rows)) = 1 + PackedLen(size[t])

\* A bucket holding a rendered glyph and a black one, for size 24.
C5_Witness ==
    /\ "24" \in DOMAIN Content
    /\ \E c, d \in DOMAIN Content["24"] :
           AllZero(Content["24"][c]) /\ ~AllZero(Content["24"][d])
    /\ \E t \in Threads : CsvDone(t) /\ size[t] = 24 /\ resp[t].status = 200

\* C6: with requests served one after the other, a step that is not /clear
\* keeps every cache entry with its value, and text_to_dot_matrix is called
\* only for characters the bucket does not hold.
C6_EntriesStayUntilClear ==
    [][ \/ \E t \in Threads : pc[t] = "idle" /\ handler'[t] = "clear_cache"
        \/ /\ \A k \in DOMAIN Content :
                  /\ k \in DOMAIN Content'
                  /\ \A c \in DOMAIN Content[k] :
                         c \in DOMAIN Content'[k] /\ Content'[k][c] = Content[k][c]
           /\ \A t \in Threads : \A c \in Chars :
                  rendered'[t][c] > rendered[t][c] =>
                      c \notin DOMAIN Content[str(size[t])] ]_vars

\* A request for a character whose entry is a black placeholder from an
\* earlier request: answered without rendering it, the placeholder still there.
C6_Witness ==
    \E t \in Threads : \E c \in SetOf(text[t]) :
        /\ CsvDone(t) /\ resp[t].status = 200
        /\ c \in DOMAIN BucketBefore(t) /\ AllZero(BucketBefore(t)[c])
        /\ rendered[t][c] = 0
        /\ AllZero(BucketOf(t)[c])

\* The size a request is served with.
ServedSize(t) == IF reqsize[t] \in ALLOWED_SIZES THEN reqsize[t] ELSE 16

\* C7: after /clear the cache is empty, and the first /font.csv request
\* after it (non-empty text) calls text_to_dot_matrix once per distinct
\* character of its text and leaves exactly those characters, under the key
\* of its coerced size.
C7_ClearThenRepopulate ==
    /\ cleared => Content = Empty
    /\ \A t \in Threads :
           CsvDone(t) /\ afterClear[t] /\ text[t] # <<>> =>
               /\ rendered[t] = [c \in Chars |-> IF c \in SetOf(text[t]) THEN 1 ELSE 0]
               /\ DOMAIN Content = {str(ServedSize(t))}
               /\ DOMAIN Content[str(ServedSize(t))] = SetOf(text[t])

\* The clear removed entries, among them one the next request asks for again.
C7_Witness ==
    \E t \in Threads :
        /\ CsvDone(t) /\ afterClear[t] /\ text[t] # <<>>
        /\ str(ServedSize(t)) \in DOMAIN wiped
        /\ \E c \in SetOf(text[t]) : c \in DOMAIN wiped[str(ServedSize(t))]

\* C8: a /font.csv request (non-empty text) that runs concurrently with
\* /clear requests still answers 200, and at line 143 the key of its size
\* is in FONT_CACHE.
C8_ClearRaceHarmless ==
    \A t \in Threads :
        /\ CsvDone(t) /\ text[t] # <<>> => resp[t].status = 200
        /\ pc[t] = "L143" => str(size[t]) \in DOMAIN FONT_CACHE

\* C9: when /font.csv requests run concurrently and no /clear has run, the
\* bucket a request reads after get_cached_fonts holds every distinct
\* character of its text, so the response has a row for each.
C9_ConcurrentPopulationComplete ==
    \A t \in Threads :
        /\ pc[t] = "L156" /\ clears = 0 => SetOf(text[t]) \subseteq DOMAIN heap[cache[t]]
        /\ CsvDone(t) /\ clears = 0 /\ resp[t].status = 200 =>
               SetOf(RowChars(t)) = SetOf(text[t])

\* C10: when get_cached_fonts is called twice in a row with the same text
\* and size, the cache after the second call is the cache after the first
\* and the second call renders nothing.
C10_EnsureIdempotent ==
    \A t \in Threads :
        /\ pc[t] \in {"L143", "L156", "done"}
        /\ handler[t] = "download_font_csv" /\ text[t] # <<>>
        /\ lastEnsure.n = 2 /\ lastEnsure.text = text[t] /\ lastEnsure.size = size[t]
        => /\ Content = lastEnsure.content
           /\ rendered[t] = NoRenders

\* The second of two calls has returned; the first one had rendered.
C10_Witness ==
    \E t \in Threads :
        /\ pc[t] = "L143" /\ lastEnsure.n = 2
        /\ lastEnsure.text = text[t] /\ lastEnsure.size = size[t]
        /\ Cardinality(SetOf(text[t])) = 2
        /\ Content = lastEnsure.content
====
